---- MODULE Spec2Model ----
(***************************************************************************)
(* A model of the RADIUS attribute decoder of                              *)
(* src/protocols/radius/decode.c.                                          *)
(*                                                                         *)
(* A C pointer into a buffer is modelled as a pair (buf, index): buf is a  *)
(* sequence of bytes and index is 0-based, so the C expression data[i] is  *)
(* Byte(buf, data + i).  Every decoding function returns a record          *)
(*   rc  : the C return value,                                             *)
(*   out : the pair list behind the caller's cursor after the call,        *)
(*   hi  : 1 + the highest index of buf the call read (0: no read),        *)
(*   log : the calls, loops and jumps to "raw" made on the way.            *)
(***************************************************************************)
EXTENDS Integers, Sequences, FiniteSets, TLC

VARIABLES
    packet,                 \* the attribute bytes of the packet being decoded
    pos,                    \* the caller's offset of the next attribute
    out,                    \* the caller's output sequence of pairs
    rcode,                  \* what the last call returned
    hi,                     \* 1 + highest packet index the last call read
    calls,                  \* the log of the last call: its nested calls and loops
    lastPos,                \* the offset the last call was made at
    lastOut,                \* the output sequence before the last call
    pc,                     \* "walk", "done" or "error"
    junk,                   \* the byte a read outside a buffer yields
    NDEBUG,                 \* whether the build defines NDEBUG
    allocFail,              \* attribute numbers whose unknown descriptor cannot be allocated
    tunnel_password_zeros,  \* the decoder context's flag
    dv_type,                \* type width handed to the TLV validator
    dv_length               \* length width handed to the TLV validator

vars == <<packet, pos, out, rcode, hi, calls, lastPos, lastOut, pc, junk,
          NDEBUG, allocFail, tunnel_password_zeros, dv_type, dv_length>>

----------------------------------------------------------------------------
(* Bounds of the model *)

MaxAttrs == 3
MaxFrags == 2
MaxSubs == 2
MaxTrunc == 2
MaxSlice == 5

----------------------------------------------------------------------------
(* Program constants *)

FR_VENDOR_SPECIFIC == 26
FR_CHARGEABLE_USER_IDENTITY == 89
VENDORPEC_WIMAX == 24757
AUTH_PASS_LEN == 16
RADIUS_AUTH_VECTOR_LENGTH == 16
TAG_NONE == 0
BufferSize == 256
MaxAttrLen == 131072
MaxCopyLen == 65535
MaxEncryptedLen == 253

Max2(a, b) == IF a >= b THEN a ELSE b

(* data[i]: a read at or past the end of the buffer yields whatever is there *)
Byte(buf, i) == IF i >= 0 /\ i < Len(buf) THEN buf[i + 1] ELSE junk

(* the bytes buf[from .. from + n - 1] *)
Bytes(buf, from, n) == [i \in 1..n |-> Byte(buf, from + i - 1)]

----------------------------------------------------------------------------
(* The dictionary: descriptors are records, identified by their numeric path *)

Attr(path, type) ==
    [path |-> path, type |-> type, has_tag |-> FALSE, subtype |-> "NONE",
     concat |-> FALSE, extra |-> 0, is_unknown |-> FALSE, is_root |-> FALSE]

NoDA == Attr(<<>>, "NULL")

Root == [Attr(<<>>, "ROOT") EXCEPT !.is_root = TRUE]

Dictionary ==
    { Attr(<<1>>, "STRING"),
      [Attr(<<64>>, "UINT32") EXCEPT !.has_tag = TRUE],
      [Attr(<<69>>, "STRING") EXCEPT !.has_tag = TRUE, !.subtype = "TUNNEL_PASSWORD"],
      [Attr(<<79>>, "OCTETS") EXCEPT !.concat = TRUE],
      [Attr(<<81>>, "STRING") EXCEPT !.has_tag = TRUE],
      [Attr(<<83>>, "OCTETS") EXCEPT !.has_tag = TRUE],
      Attr(<<89>>, "OCTETS"),
      Attr(<<97>>, "IPV6_PREFIX"),
      Attr(<<26>>, "VSA"),
      Attr(<<26, 9>>, "VENDOR"),
      Attr(<<26, 9, 1>>, "STRING"),
      Attr(<<26, 9, 2>>, "UINT8"),
      Attr(<<26, 24757>>, "VENDOR"),
      Attr(<<26, 24757, 1>>, "TLV"),
      Attr(<<26, 24757, 1, 1>>, "STRING"),
      Attr(<<26, 24757, 1, 2>>, "UINT8"),
      Attr(<<26, 24757, 4>>, "OCTETS"),
      Attr(<<241>>, "EXTENDED"),
      Attr(<<241, 1>>, "UINT32"),
      Attr(<<241, 2>>, "TLV"),
      Attr(<<241, 2, 1>>, "STRING"),
      Attr(<<241, 2, 2>>, "UINT8"),
      [Attr(<<245>>, "EXTENDED") EXCEPT !.extra = 1],
      Attr(<<245, 1>>, "OCTETS") }

fr_dict_attr_child_by_num(parent, attr) ==
    LET found == {d \in Dictionary : d.path = Append(parent.path, attr)}
    IN  IF parent.is_unknown \/ found = {} THEN NoDA ELSE CHOOSE d \in found : TRUE

(* NULL when the allocation fails *)
fr_dict_unknown_afrom_fields(parent, vendor, attr) ==
    IF attr \in allocFail THEN NoDA
    ELSE [Attr(Append(parent.path, attr), "OCTETS") EXCEPT !.is_unknown = TRUE]

(* the unknown descriptor "raw" puts in the place of parent: same numeric path *)
UnknownOf(parent) ==
    IF parent.path[Len(parent.path)] \in allocFail THEN NoDA
    ELSE [Attr(parent.path, "OCTETS") EXCEPT !.is_unknown = TRUE]

(* vendors: private enterprise number, type width, length width, flags *)
Vendors ==
    { [pen |-> 9, type |-> 1, length |-> 1, flags |-> 0],
      [pen |-> VENDORPEC_WIMAX, type |-> 1, length |-> 1, flags |-> 1] }

fr_dict_vendor_by_num(pen) == CHOOSE v \in Vendors : v.pen = pen

(* min and max value length of each kind *)
fr_radius_attr_sizes(type) ==
    CASE type = "STRING"   -> <<0, MaxAttrLen>>
      [] type = "OCTETS"   -> <<0, MaxAttrLen>>
      [] type = "UINT8"    -> <<1, 1>>
      [] type = "UINT32"   -> <<4, 4>>
      [] type = "IPV6_PREFIX" -> <<2, 18>>
      [] type = "TLV"      -> <<2, MaxAttrLen>>
      [] type = "EXTENDED" -> <<2, MaxAttrLen>>
      [] type = "VSA"      -> <<4, MaxAttrLen>>
      [] OTHER             -> <<MaxAttrLen, 0>>

----------------------------------------------------------------------------
(* Pairs and results *)

Pair(da, tag, val) ==
    [da |-> da.path, type |-> da.type, unknown |-> da.is_unknown,
     tag |-> tag, val |-> val]

Res(rc, cursor, h, log) == [rc |-> rc, out |-> cursor, hi |-> h, log |-> log]

(* one entry of the log: a call of a container decoder or of a reassembler *)
LogEntry(fn, at, rc, pre, post, staged) ==
    [fn |-> fn, at |-> at, rc |-> rc, pre |-> pre, post |-> post, staged |-> staged]

(* the entry of a loop: the bytes it moved by in each iteration, and the *)
(* number of bytes that were left to it when it started at "at"          *)
LoopEntry(fn, at, steps, length) == LogEntry(fn, at, 0, steps, length, <<>>)

(* the entries of a pair: "vp = fr_pair_afrom_da(ctx, parent)", and then *)
(* what became of vp, "fr_cursor_append(cursor, vp)" or its release      *)
Allocated(log, parent) ==
    Append(log, LogEntry("fr_pair_afrom_da", 0, 0, parent.path, <<>>, <<>>))
PairAppended(log, parent) ==
    Append(Allocated(log, parent), LogEntry("fr_cursor_append", 0, 0, parent.path, <<>>, <<>>))
PairFreed(log, parent) ==
    Append(Allocated(log, parent), LogEntry("fr_pair_free", 0, 0, parent.path, <<>>, <<>>))

(* the entries of a scratch buffer: "head = talloc_array(...)", the calls *)
(* log made while it is in use, "talloc_free(head)"                       *)
Scratch(at, log) ==
    <<LogEntry("talloc_array", at, 0, <<>>, <<>>, <<>>)>> \o log
    \o <<LogEntry("talloc_free", at, 0, <<>>, <<>>, <<>>)>>

(* the entry of a "goto raw" on the descriptor parent *)
Jumped(log, parent) == Append(log, LogEntry("raw", 0, 0, parent.path, <<>>, <<>>))

(* the entry of a call of fr_radius_decode_pair_value that returned r: the *)
(* depth of its descriptor, the length of its slice and, in staged, the    *)
(* number of entries made inside the call, which stand right before it     *)
Dispatched(r, parent, data, attr_len) ==
    Res(r.rc, r.out, r.hi,
        Append(r.log, LogEntry("fr_radius_decode_pair_value", data, r.rc,
                               Len(parent.path), attr_len, <<Len(r.log)>>)))

----------------------------------------------------------------------------
(* memcpy_bounded: the n bytes left at dst; what is not copied stays as it was *)

memcpy_bounded(buf, src, n, end) ==
    LET len == IF src + n <= end THEN n ELSE end - src
        got == IF n > MaxCopyLen \/ ~(src < end) THEN 0 ELSE len
    IN  [i \in 1..n |-> IF i <= got THEN Byte(buf, src + i - 1) ELSE junk]

----------------------------------------------------------------------------
(* fr_radius_decode_tlv_ok *)

(* the bytes a walk moved its pointer by in each of its iterations, in *)
(* order: n is put in front of the steps of the walk w that went on    *)
Stepped(n, w) == [w EXCEPT !.steps = <<n>> \o @]

BadTlvId(buf, data, type) ==
    CASE type = 4 -> (\A j \in 0..3 : Byte(buf, data + j) = 0) \/ Byte(buf, data) # 0
      [] type = 2 -> Byte(buf, data) = 0 /\ Byte(buf, data + 1) = 0
      [] type = 1 -> FALSE
      [] OTHER    -> TRUE

RECURSIVE tlv_ok_loop(_, _, _, _, _, _, _)
(* the loop without the test "attrlen > length" *)
tlv_ok_loop_no_overflow_test(buf, data, end, length, type, lenw, h) ==
    IF ~(data < end) THEN [rc |-> 0, hi |-> h, steps |-> <<>>]
    ELSE IF data + type + lenw > end THEN [rc |-> -1, hi |-> h, steps |-> <<>>]
    ELSE IF BadTlvId(buf, data, type) THEN [rc |-> -1, hi |-> Max2(h, data + type), steps |-> <<>>]
    ELSE IF lenw = 0 THEN [rc |-> 0, hi |-> Max2(h, data + type), steps |-> <<>>]
    ELSE IF lenw = 2 /\ Byte(buf, data + type) # 0
         THEN [rc |-> -1, hi |-> Max2(h, data + type + 1), steps |-> <<>>]
    ELSE LET attrlen == Byte(buf, data + type + lenw - 1)
             h1 == Max2(h, data + type + lenw)
         IN  IF attrlen < type + lenw THEN [rc |-> -1, hi |-> h1, steps |-> <<>>]
             ELSE Stepped(attrlen, tlv_ok_loop(buf, data + attrlen, end,
                                                length - attrlen, type, lenw, h1))

tlv_ok_loop(buf, data, end, length, type, lenw, h) ==
    IF ~(data < end) THEN [rc |-> 0, hi |-> h, steps |-> <<>>]
    ELSE IF data + type + lenw > end THEN [rc |-> -1, hi |-> h, steps |-> <<>>]
    ELSE IF BadTlvId(buf, data, type) THEN [rc |-> -1, hi |-> Max2(h, data + type), steps |-> <<>>]
    ELSE IF lenw = 0 THEN [rc |-> 0, hi |-> Max2(h, data + type), steps |-> <<>>]
    ELSE IF lenw = 2 /\ Byte(buf, data + type) # 0
         THEN [rc |-> -1, hi |-> Max2(h, data + type + 1), steps |-> <<>>]
    ELSE LET attrlen == Byte(buf, data + type + lenw - 1)
             h1 == Max2(h, data + type + lenw)
         IN  IF attrlen < type + lenw THEN [rc |-> -1, hi |-> h1, steps |-> <<>>]
             ELSE IF attrlen > length THEN [rc |-> -1, hi |-> h1, steps |-> <<>>]
             ELSE Stepped(attrlen, tlv_ok_loop(buf, data + attrlen, end,
                                                length - attrlen, type, lenw, h1))

fr_radius_decode_tlv_ok(buf, data, length, type, lenw) ==
    IF lenw > 2 \/ type = 0 \/ type > 4 THEN [rc |-> -1, hi |-> 0, steps |-> <<>>]
    ELSE tlv_ok_loop(buf, data, data + length, length, type, lenw, 0)

----------------------------------------------------------------------------
(* decode_concat *)

RECURSIVE concat_walk(_, _, _, _, _, _)
(* the walk without the test "ptr[0] != attr" *)
concat_walk_any_type(buf, ptr, end, attr, total, h) ==
    IF ~(ptr < end) THEN [rc |-> 0, total |-> total, ptr |-> ptr, hi |-> h, steps |-> <<>>]
    ELSE LET len == Byte(buf, ptr + 1)
             h1 == Max2(h, ptr + 2)
             nxt == ptr + len
         IN  IF len <= 2 THEN [rc |-> -1, total |-> total, ptr |-> ptr, hi |-> h1,
                                   steps |-> <<>>]
             ELSE IF nxt > end THEN [rc |-> -1, total |-> total, ptr |-> ptr, hi |-> h1,
                                   steps |-> <<>>]
             ELSE IF nxt = end
                  THEN [rc |-> 0, total |-> total + len - 2, ptr |-> nxt, hi |-> h1,
                        steps |-> <<len>>]
             ELSE Stepped(len, concat_walk(buf, nxt, end, attr, total + len - 2,
                                               Max2(h1, nxt + 1)))

concat_walk(buf, ptr, end, attr, total, h) ==
    IF ~(ptr < end) THEN [rc |-> 0, total |-> total, ptr |-> ptr, hi |-> h, steps |-> <<>>]
    ELSE LET len == Byte(buf, ptr + 1)
             h1 == Max2(h, ptr + 2)
             nxt == ptr + len
         IN  IF len <= 2 THEN [rc |-> -1, total |-> total, ptr |-> ptr, hi |-> h1,
                                   steps |-> <<>>]
             ELSE IF nxt > end THEN [rc |-> -1, total |-> total, ptr |-> ptr, hi |-> h1,
                                   steps |-> <<>>]
             ELSE IF nxt = end
                  THEN [rc |-> 0, total |-> total + len - 2, ptr |-> nxt, hi |-> h1,
                        steps |-> <<len>>]
             ELSE IF Byte(buf, nxt) # attr
                  THEN [rc |-> 0, total |-> total + len - 2, ptr |-> nxt,
                        hi |-> Max2(h1, nxt + 1), steps |-> <<len>>]
             ELSE Stepped(len, concat_walk(buf, nxt, end, attr, total + len - 2,
                                               Max2(h1, nxt + 1)))

RECURSIVE concat_copy(_, _, _)
concat_copy(buf, ptr, end) ==
    IF ptr < end
    THEN memcpy_bounded(buf, ptr + 2, Byte(buf, ptr + 1) - 2, end)
         \o concat_copy(buf, ptr + Byte(buf, ptr + 1), end)
    ELSE <<>>

decode_concat(cursor, parent, buf, data, packet_len) ==
    LET w == concat_walk(buf, data, data + packet_len, Byte(buf, data), 0, data + 1)
        log == <<LoopEntry("concat_walk", data, w.steps, packet_len)>>
    IN  IF w.rc < 0 THEN Res(-1, cursor, w.hi, log)
        ELSE IF w.total = 0 THEN Res(2, cursor, w.hi, log)
        ELSE Res(w.ptr - data,
                 Append(cursor, Pair(parent, TAG_NONE, concat_copy(buf, data, w.ptr))),
                 w.hi, log)

----------------------------------------------------------------------------
(* MD5 and the decoder context.  The digest is a fixed 16-byte function of *)
(* the hashed bytes.                                                       *)

RECURSIVE SumBytes(_)
SumBytes(s) == IF s = <<>> THEN 0 ELSE Head(s) + SumBytes(Tail(s))

fr_md5(s) ==
    [i \in 1..RADIUS_AUTH_VECTOR_LENGTH |-> (SumBytes(s) * 31 + Len(s) * 7 + i * 13) % 256]

RECURSIVE Xor(_, _)
Xor(a, b) ==
    IF a = 0 THEN b
    ELSE IF b = 0 THEN a
    ELSE ((a + b) % 2) + 2 * Xor(a \div 2, b \div 2)

(* decode_test_ctx: secret "testing123", vector 00 01 .. 0f *)
secret == <<116, 101, 115, 116, 105, 110, 103, 49, 50, 51>>
vector == [i \in 1..RADIUS_AUTH_VECTOR_LENGTH |-> i - 1]

(* int8_t tag = p[0] *)
Int8(b) == IF b >= 128 THEN b - 256 ELSE b

----------------------------------------------------------------------------
(* fr_radius_decode_tunnel_password: passwd is the buffer's first pwlen    *)
(* bytes; returns rc, the buffer afterwards and *pwlen afterwards.         *)

(* one pass of the "for (n = 0; ...)" loop: digest is b(k), buf the buffer *)
(* so far, orig the ciphertext as it came                                  *)
RECURSIVE tunnel_blocks(_, _, _, _, _)
tunnel_blocks(passwd, orig, pwlen, n, digest) ==
    IF ~(n < pwlen - 2) THEN passwd
    ELSE LET block_len == IF n + 2 + AUTH_PASS_LEN > pwlen
                          THEN pwlen - n - 2 ELSE AUTH_PASS_LEN
             base == IF n = 0 THEN 1 ELSE 0
             next_digest == fr_md5(secret \o Bytes(orig, n + 2, block_len))
             plain == [k \in 1..Len(passwd) |->
                          LET i == (k - 1) - n + 1
                          IN  IF i >= base /\ i < block_len
                              THEN Xor(orig[n + i + 3], digest[i + 1])
                              ELSE passwd[k]]
         IN  tunnel_blocks(plain, orig, pwlen, n + AUTH_PASS_LEN, next_digest)

(* the function without the "Check trailing bytes" loop *)
fr_radius_decode_tunnel_password_no_zeros_test(passwd, pwlen) ==
    IF pwlen < 2 THEN [rc |-> -1, passwd |-> passwd, pwlen |-> pwlen]
    ELSE IF pwlen <= 3
         THEN [rc |-> 0, passwd |-> [passwd EXCEPT ![1] = 0], pwlen |-> 0]
    ELSE LET encrypted_len == pwlen - 2
             digest == fr_md5(secret \o vector \o Bytes(passwd, 0, 2))
             embedded_len == Xor(passwd[3], digest[1])
             plain == tunnel_blocks(passwd, passwd, pwlen, 0, digest)
         IN  IF embedded_len > encrypted_len
             THEN [rc |-> -1, passwd |-> passwd, pwlen |-> pwlen]
             ELSE [rc |-> embedded_len,
                   passwd |-> [plain EXCEPT ![embedded_len + 1] = 0],
                   pwlen |-> embedded_len]

fr_radius_decode_tunnel_password(passwd, pwlen) ==
    IF pwlen < 2 THEN [rc |-> -1, passwd |-> passwd, pwlen |-> pwlen]
    ELSE IF pwlen <= 3
         THEN [rc |-> 0, passwd |-> [passwd EXCEPT ![1] = 0], pwlen |-> 0]
    ELSE LET encrypted_len == pwlen - 2
             digest == fr_md5(secret \o vector \o Bytes(passwd, 0, 2))
             embedded_len == Xor(passwd[3], digest[1])
             plain == tunnel_blocks(passwd, passwd, pwlen, 0, digest)
             garbage == \E i \in embedded_len..(encrypted_len - 2) : plain[i + 1] # 0
         IN  IF embedded_len > encrypted_len
             THEN [rc |-> -1, passwd |-> passwd, pwlen |-> pwlen]
             ELSE IF tunnel_password_zeros /\ garbage
             THEN [rc |-> -1, passwd |-> plain, pwlen |-> pwlen]
             ELSE [rc |-> embedded_len,
                   passwd |-> [plain EXCEPT ![embedded_len + 1] = 0],
                   pwlen |-> embedded_len]

----------------------------------------------------------------------------
(* fr_value_box_from_network for the kinds of the dictionary: the value is *)
(* the network bytes; a fixed-size kind refuses any other length.          *)

fr_value_box_from_network(type, buf, p, data_len) ==
    LET sizes == fr_radius_attr_sizes(type)
    IN  IF data_len < sizes[1] \/ data_len > sizes[2]
        THEN [rc |-> -1, val |-> <<>>]
        ELSE [rc |-> 0, val |-> Bytes(buf, p, data_len)]

LeafTypes == {"STRING", "OCTETS", "UINT8", "UINT32"}

(* the big-endian vendor number of data[0..3] *)
VendorNum(buf, data) ==
    ((Byte(buf, data) * 256 + Byte(buf, data + 1)) * 256 + Byte(buf, data + 2)) * 256
    + Byte(buf, data + 3)

(* "rcode = f(...); if (rcode < 0) return rcode; return n + rcode": the *)
(* result r of the call f handed on, h the reads made before it        *)
Passed(r, n, h) ==
    Res(IF r.rc < 0 THEN r.rc ELSE n + r.rc, r.out, Max2(h, r.hi), r.log)

(* "rcode = f(...); if (rcode < 0) return -1; return n": the result r  *)
(* of the call f, h the reads and log the calls made before it         *)
Returning(r, n, h, log) ==
    Res(IF r.rc < 0 THEN -1 ELSE n, r.out, Max2(h, r.hi), log \o r.log)

RECURSIVE fr_radius_decode_pair_value(_, _, _, _, _, _)
RECURSIVE fr_radius_decode_tlv(_, _, _, _, _)
RECURSIVE decode_vsa(_, _, _, _, _, _)
RECURSIVE decode_extended(_, _, _, _, _, _)
RECURSIVE decode_wimax(_, _, _, _, _, _, _)

----------------------------------------------------------------------------
(* fr_radius_decode_tlv *)

RECURSIVE tlv_loop(_, _, _, _, _, _, _)
tlv_loop(staged, parent, buf, p, end, h, log) ==
    IF ~(p < end) THEN Res(0, staged, h, log)
    ELSE LET known == fr_dict_attr_child_by_num(parent, Byte(buf, p))
             child == IF known # NoDA THEN known
                      ELSE fr_dict_unknown_afrom_fields(parent, 0, Byte(buf, p))
             len   == Byte(buf, p + 1)
             h1    == Max2(h, p + 2)
         IN  IF child = NoDA THEN Res(-1, staged, h1, log)
             ELSE LET r == fr_radius_decode_pair_value(staged, child, buf, p + 2,
                                                       len - 2, len - 2)
                  IN  IF r.rc < 0 THEN Res(-1, r.out, Max2(h1, r.hi), log \o r.log)
                      ELSE tlv_loop(r.out, parent, buf, p + len, end, Max2(h1, r.hi),
                                    log \o r.log
                                    \o <<LoopEntry("tlv_loop", p, <<len>>, end - p)>>)

(* the end of the function, given the result l of the loop: the staged  *)
(* pairs appended to the caller's sequence                              *)
tlv_unstaged(cursor, data, data_len, l) ==
    Res(IF l.rc < 0 THEN -1 ELSE data_len, cursor \o l.out, l.hi,
        l.log \o <<LogEntry("fr_radius_decode_tlv", data, IF l.rc < 0 THEN -1 ELSE data_len,
                            cursor, cursor \o l.out, l.out)>>)

(* the end of the function with the staged pairs put in front of the    *)
(* caller's                                                             *)
tlv_merged_at_head(cursor, data, data_len, l) ==
    Res(IF l.rc < 0 THEN -1 ELSE data_len,
        IF l.rc < 0 THEN cursor ELSE l.out \o cursor, l.hi,
        l.log \o <<LogEntry("fr_radius_decode_tlv", data, IF l.rc < 0 THEN -1 ELSE data_len,
                            cursor, IF l.rc < 0 THEN cursor ELSE l.out \o cursor,
                            l.out)>>)

(* the end of the function, given the result l of the loop: the staged  *)
(* pairs are freed on failure and spliced onto the caller's on success  *)
tlv_merged(cursor, data, data_len, l) ==
    Res(IF l.rc < 0 THEN -1 ELSE data_len,
        IF l.rc < 0 THEN cursor ELSE cursor \o l.out, l.hi,
        l.log \o <<LogEntry("fr_radius_decode_tlv", data, IF l.rc < 0 THEN -1 ELSE data_len,
                            cursor, IF l.rc < 0 THEN cursor ELSE cursor \o l.out,
                            l.out)>>)

fr_radius_decode_tlv(cursor, parent, buf, data, data_len) ==
    IF data_len < 3 THEN Res(-1, cursor, 0, <<>>)
    ELSE LET ok == fr_radius_decode_tlv_ok(buf, data, data_len, 1, 1)
             log == <<LoopEntry("tlv_ok_loop", data, ok.steps, data_len)>>
         IN  IF ok.rc < 0 THEN Res(-1, cursor, ok.hi, log)
             ELSE tlv_merged(cursor, data, data_len,
                             tlv_loop(<<>>, parent, buf, data, data + data_len,
                                      ok.hi, log))

----------------------------------------------------------------------------
(* decode_vsa_internal *)

decode_vsa_internal(cursor, parent, buf, data, data_len, dv) ==
    IF parent.type # "VENDOR" THEN Res(-1, cursor, 0, <<>>)
    ELSE IF ~NDEBUG /\ data_len <= dv.type + dv.length THEN Res(-1, cursor, 0, <<>>)
    ELSE IF dv.type \notin {1, 2, 4} \/ dv.length \notin {0, 1, 2}
         THEN Res(-1, cursor, 0, <<>>)
    ELSE LET attribute ==
                 CASE dv.type = 4 -> (Byte(buf, data + 1) * 256 + Byte(buf, data + 2)) * 256
                                     + Byte(buf, data + 3)
                   [] dv.type = 2 -> Byte(buf, data) * 256 + Byte(buf, data + 1)
                   [] dv.type = 1 -> Byte(buf, data)
             attrlen ==
                 CASE dv.length = 2 -> Byte(buf, data + dv.type + 1)
                   [] dv.length = 1 -> Byte(buf, data + dv.type)
                   [] dv.length = 0 -> data_len
             hdr   == dv.type + dv.length
             h1    == data + hdr
             known == fr_dict_attr_child_by_num(parent, attribute)
             da    == IF known # NoDA THEN known
                      ELSE fr_dict_unknown_afrom_fields(parent, dv.pen, attribute)
         IN  IF da = NoDA THEN Res(-1, cursor, h1, <<>>)
             ELSE LET r == fr_radius_decode_pair_value(cursor, da, buf, data + hdr,
                                                       attrlen - hdr, attrlen - hdr)
                  IN  IF r.rc < 0 THEN Res(r.rc, r.out, Max2(h1, r.hi), r.log)
                      ELSE Res(attrlen, r.out, Max2(h1, r.hi), r.log)

----------------------------------------------------------------------------
(* decode_extended *)

RECURSIVE extended_walk(_, _, _, _, _, _, _, _)
(* the walk without the test "frag[2] != attr[2]" *)
extended_walk_any_ext(buf, frag, end, attr, fraglen, fragments, last_frag, h) ==
    IF ~(frag < end)
    THEN [end |-> end, fraglen |-> fraglen, fragments |-> fragments, hi |-> h,
          steps |-> <<>>]
    ELSE LET stop == [end |-> frag, fraglen |-> fraglen, fragments |-> fragments,
                      steps |-> <<>>]
             len  == Byte(buf, frag + 1)
         IN  IF last_frag THEN stop @@ [hi |-> h]
             ELSE IF Byte(buf, frag) # Byte(buf, attr)
                  THEN stop @@ [hi |-> Max2(h, frag + 1)]
             ELSE IF len < 4 THEN stop @@ [hi |-> Max2(h, frag + 2)]
             ELSE IF frag + len > end THEN stop @@ [hi |-> Max2(h, frag + 3)]
             ELSE Stepped(len, extended_walk(buf, frag + len, end, attr,
                                             fraglen + len - 4, fragments + 1,
                                             Byte(buf, frag + 3) < 128,
                                             Max2(h, frag + 4)))

extended_walk(buf, frag, end, attr, fraglen, fragments, last_frag, h) ==
    IF ~(frag < end)
    THEN [end |-> end, fraglen |-> fraglen, fragments |-> fragments, hi |-> h,
          steps |-> <<>>]
    ELSE LET stop == [end |-> frag, fraglen |-> fraglen, fragments |-> fragments,
                      steps |-> <<>>]
             len  == Byte(buf, frag + 1)
         IN  IF last_frag THEN stop @@ [hi |-> h]
             ELSE IF Byte(buf, frag) # Byte(buf, attr)
                  THEN stop @@ [hi |-> Max2(h, frag + 1)]
             ELSE IF len < 4 THEN stop @@ [hi |-> Max2(h, frag + 2)]
             ELSE IF Byte(buf, frag + 2) # Byte(buf, attr + 2)
                  THEN stop @@ [hi |-> Max2(h, frag + 3)]
             ELSE IF frag + len > end THEN stop @@ [hi |-> Max2(h, frag + 3)]
             ELSE Stepped(len, extended_walk(buf, frag + len, end, attr,
                                             fraglen + len - 4, fragments + 1,
                                             Byte(buf, frag + 3) < 128,
                                             Max2(h, frag + 4)))

RECURSIVE extended_copy(_, _, _, _)
extended_copy(buf, frag, fragments, end) ==
    IF fragments > 0
    THEN memcpy_bounded(buf, frag + 4, Byte(buf, frag + 1) - 4, end)
         \o extended_copy(buf, frag + Byte(buf, frag + 1), fragments - 1, end)
    ELSE <<>>

(* the fragments w found by the walk, copied and decoded as one value *)
extended_fragments(cursor, parent, buf, data, length, w) ==
    LET head == extended_copy(buf, data - 2, w.fragments, w.end)
        r == fr_radius_decode_pair_value(cursor, parent, head, 0, w.fraglen, w.fraglen)
        rc == IF r.rc < 0 THEN r.rc ELSE w.end - data
    IN  Res(rc, r.out, w.hi,
            <<LoopEntry("extended_walk", data, w.steps, length)>> \o Scratch(data, r.log)
            \o <<LogEntry("decode_extended", data, rc, cursor, r.out, head)>>)

decode_extended(cursor, parent, buf, data, attr_len, packet_len) ==
    IF attr_len < 3 THEN Res(-1, cursor, 0, <<>>)
    ELSE IF Byte(buf, data + 1) < 128
    THEN Returning(fr_radius_decode_pair_value(cursor, parent, buf, data + 2,
                                               attr_len - 2, attr_len - 2),
                   attr_len, data + 2, <<>>)
    ELSE extended_fragments(cursor, parent, buf, data, packet_len - attr_len,
                            extended_walk(buf, data + attr_len, data + packet_len,
                                          data - 2, attr_len - 2, 1, FALSE, data + 2))

----------------------------------------------------------------------------
(* decode_wimax *)

RECURSIVE wimax_walk(_, _, _, _, _, _)
(* the walk without the comparison of the vendor ids *)
wimax_walk_any_vendor(buf, data, attr, end, wimax_len, h) ==
    LET fail(x) == [rc |-> -1, end |-> end, wimax_len |-> wimax_len, hi |-> Max2(h, x),
                    steps |-> <<>>]
        len  == Byte(buf, attr + 1)
        more == Byte(buf, attr + 2) >= 128
        end1 == IF more THEN end ELSE attr + len
        nxt  == attr + len
    IN  IF ~(attr < end)
        THEN [rc |-> 0, end |-> end, wimax_len |-> wimax_len, hi |-> h, steps |-> <<>>]
        ELSE IF end - attr < 3 THEN fail(0)
        ELSE IF len <= 3 THEN fail(attr + 2)
        ELSE IF attr + len > end THEN fail(attr + 2)
        ELSE IF more /\ attr + len = end1 THEN fail(attr + 3)
        ELSE IF ~more
             THEN [rc |-> 0, end |-> end1, wimax_len |-> wimax_len + len - 3,
                   hi |-> Max2(h, attr + 3), steps |-> <<len>>]
        ELSE IF end1 - nxt < 9 THEN fail(attr + 3)
        ELSE IF Byte(buf, nxt) # FR_VENDOR_SPECIFIC THEN fail(nxt + 1)
        ELSE IF Byte(buf, nxt + 1) < 9 THEN fail(nxt + 2)
        ELSE IF nxt + Byte(buf, nxt + 1) > end1 THEN fail(nxt + 2)
        ELSE IF Byte(buf, nxt + 1) # Byte(buf, nxt + 7) + 6 THEN fail(nxt + 8)
        ELSE IF Byte(buf, data + 4) # Byte(buf, nxt + 6) THEN fail(nxt + 8)
        ELSE Stepped(len + 6, wimax_walk(buf, data, nxt + 6, end1, wimax_len + len - 3,
                                          Max2(h, nxt + 8)))

wimax_walk(buf, data, attr, end, wimax_len, h) ==
    LET fail(x) == [rc |-> -1, end |-> end, wimax_len |-> wimax_len, hi |-> Max2(h, x),
                    steps |-> <<>>]
        len  == Byte(buf, attr + 1)
        more == Byte(buf, attr + 2) >= 128
        end1 == IF more THEN end ELSE attr + len
        nxt  == attr + len
    IN  IF ~(attr < end)
        THEN [rc |-> 0, end |-> end, wimax_len |-> wimax_len, hi |-> h, steps |-> <<>>]
        ELSE IF end - attr < 3 THEN fail(0)
        ELSE IF len <= 3 THEN fail(attr + 2)
        ELSE IF attr + len > end THEN fail(attr + 2)
        ELSE IF more /\ attr + len = end1 THEN fail(attr + 3)
        ELSE IF ~more
             THEN [rc |-> 0, end |-> end1, wimax_len |-> wimax_len + len - 3,
                   hi |-> Max2(h, attr + 3), steps |-> <<len>>]
        ELSE IF end1 - nxt < 9 THEN fail(attr + 3)
        ELSE IF Byte(buf, nxt) # FR_VENDOR_SPECIFIC THEN fail(nxt + 1)
        ELSE IF Byte(buf, nxt + 1) < 9 THEN fail(nxt + 2)
        ELSE IF nxt + Byte(buf, nxt + 1) > end1 THEN fail(nxt + 2)
        ELSE IF Bytes(buf, data, 4) # Bytes(buf, nxt + 2, 4) THEN fail(nxt + 6)
        ELSE IF Byte(buf, nxt + 1) # Byte(buf, nxt + 7) + 6 THEN fail(nxt + 8)
        ELSE IF Byte(buf, data + 4) # Byte(buf, nxt + 6) THEN fail(nxt + 8)
        ELSE Stepped(len + 6, wimax_walk(buf, data, nxt + 6, end1, wimax_len + len - 3,
                                          Max2(h, nxt + 8)))

RECURSIVE wimax_copy(_, _, _)
(* the copy that keeps the WiMAX header of every fragment *)
wimax_copy_with_header(buf, attr, end) ==
    IF attr < end
    THEN memcpy_bounded(buf, attr + 4, Byte(buf, attr + 4 + 1), end)
         \o wimax_copy(buf, attr + 4 + Byte(buf, attr + 4 + 1) + 2, end)
    ELSE <<>>

wimax_copy(buf, attr, end) ==
    IF attr < end
    THEN memcpy_bounded(buf, attr + 4 + 3, Byte(buf, attr + 4 + 1) - 3, end)
         \o wimax_copy(buf, attr + 4 + Byte(buf, attr + 4 + 1) + 2, end)
    ELSE <<>>

(* the chain w found by the walk, copied and decoded as one value *)
wimax_fragments(cursor, da, buf, data, length, w) ==
    LET bad == w.rc < 0 \/ w.wimax_len = 0
        head == wimax_copy(buf, data, w.end)
        r == fr_radius_decode_pair_value(cursor, da, head, 0, w.wimax_len, w.wimax_len)
        rc == IF bad THEN -1 ELSE IF r.rc < 0 THEN r.rc ELSE w.end - data
        after == IF bad THEN cursor ELSE r.out
    IN  Res(rc, after, w.hi,
            <<LoopEntry("wimax_walk", data, w.steps, length)>>
            \o (IF bad THEN <<>> ELSE Scratch(data, r.log))
            \o <<LogEntry("decode_wimax", data, rc, cursor, after,
                          IF rc < 0 THEN <<>> ELSE head)>>)

decode_wimax(cursor, parent, buf, data, attr_len, packet_len, vendor) ==
    IF attr_len < 8 THEN Res(-1, cursor, 0, <<>>)
    ELSE IF Byte(buf, data + 5) < 3 THEN Res(-1, cursor, data + 6, <<>>)
    ELSE IF Byte(buf, data + 5) + 4 # attr_len THEN Res(-1, cursor, data + 6, <<>>)
    ELSE LET known == fr_dict_attr_child_by_num(parent, Byte(buf, data + 4))
             da == IF known # NoDA THEN known
                   ELSE fr_dict_unknown_afrom_fields(parent, vendor, Byte(buf, data + 4))
             wlen == Byte(buf, data + 5)
         IN  IF da = NoDA THEN Res(-1, cursor, data + 6, <<>>)
             ELSE IF Byte(buf, data + 6) < 128
             THEN Returning(fr_radius_decode_pair_value(cursor, da, buf, data + 7,
                                                        wlen - 3, wlen - 3),
                            attr_len, data + 7, <<>>)
             ELSE wimax_fragments(cursor, da, buf, data, packet_len - 4,
                                  wimax_walk(buf, data, data + 4, data + packet_len,
                                             0, data + 7))

----------------------------------------------------------------------------
(* decode_vsa *)

RECURSIVE vsa_loop(_, _, _, _, _, _, _, _, _)
vsa_loop(staged, vendor_da, buf, data, attr_len, dv, total, h, log) ==
    IF ~(attr_len > 0) THEN [rc |-> total, out |-> staged, hi |-> h, log |-> log]
    ELSE LET r == decode_vsa_internal(staged, vendor_da, buf, data, attr_len, dv)
         IN  IF r.rc < 0 THEN Res(-1, r.out, Max2(h, r.hi), log \o r.log)
             ELSE vsa_loop(r.out, vendor_da, buf, data + r.rc, attr_len - r.rc, dv,
                           total + r.rc, Max2(h, r.hi),
                           log \o r.log
                           \o <<LoopEntry("vsa_loop", data, <<r.rc>>, attr_len)>>)

(* the end of the function with the staged pairs spliced onto the       *)
(* caller's whatever the loop returned                                  *)
vsa_unstaged(cursor, data, l) ==
    Res(l.rc, cursor \o l.out, l.hi,
        l.log \o <<LogEntry("decode_vsa", data, l.rc, cursor, cursor \o l.out, l.out)>>)

(* the end of the function, given the result l of the loop: the staged  *)
(* pairs are freed on failure and spliced onto the caller's on success  *)
vsa_merged(cursor, data, l) ==
    Res(l.rc, IF l.rc < 0 THEN cursor ELSE cursor \o l.out, l.hi,
        l.log \o <<LogEntry("decode_vsa", data, l.rc, cursor,
                            IF l.rc < 0 THEN cursor ELSE cursor \o l.out, l.out)>>)

decode_vsa(cursor, parent, buf, data, attr_len, packet_len) ==
    IF parent.type # "VSA" \/ attr_len > packet_len \/ attr_len < 5
    THEN Res(-1, cursor, 0, <<>>)
    ELSE IF Byte(buf, data) # 0 THEN Res(-1, cursor, data + 1, <<>>)
    ELSE LET vendor == VendorNum(buf, data)
             known  == fr_dict_attr_child_by_num(parent, vendor)
             vendor_da == IF known # NoDA THEN known
                          ELSE [Attr(Append(parent.path, vendor), "VENDOR")
                                EXCEPT !.is_unknown = TRUE]
             dv == IF known # NoDA THEN fr_dict_vendor_by_num(vendor)
                   ELSE [pen |-> vendor, type |-> 1, length |-> 1, flags |-> 0]
             ok == fr_radius_decode_tlv_ok(buf, data + 4, attr_len - 4, dv.type, dv.length)
             log == <<LoopEntry("tlv_ok_loop", data + 4, ok.steps, attr_len - 4)>>
         IN  IF known # NoDA /\ vendor = VENDORPEC_WIMAX /\ dv.flags # 0
             THEN Passed(decode_wimax(cursor, vendor_da, buf, data, attr_len,
                                      packet_len, vendor),
                         0, data + 4)
             ELSE IF ok.rc < 0 THEN Res(-1, cursor, Max2(data + 4, ok.hi), log)
             ELSE vsa_merged(cursor, data,
                             vsa_loop(<<>>, vendor_da, buf, data + 4, attr_len - 4, dv,
                                      4, Max2(data + 4, ok.hi), log))

----------------------------------------------------------------------------
(* fr_radius_decode_pair_value                                             *)
(*                                                                         *)
(* v is the state of the function's locals after the tag and decryption    *)
(* steps: p is (v.pbuf, v.p), v.local tells that p is the local buffer and *)
(* not the caller's data, v.data_len and v.tag are the locals of that name.*)

(* fr_ipaddr_mask on an address of 16 bytes: the bits behind the first  *)
(* prefix bits are cleared                                              *)
fr_ipaddr_mask(addr, prefix) ==
    [k \in 1..16 |->
        IF 8 * k <= prefix THEN addr[k]
        ELSE IF 8 * (k - 1) >= prefix THEN 0
        ELSE (addr[k] \div (2 ^ (8 * k - prefix))) * (2 ^ (8 * k - prefix))]

(* "case FR_TYPE_IPV6_PREFIX": whether the value goes to "raw", and the *)
(* prefix length and masked address of the pair if it does not          *)
ipv6_prefix_raw(buf, p, data_len) ==
    \/ Byte(buf, p) # 0
    \/ Byte(buf, p + 1) > 128
    \/ Byte(buf, p + 1) \div 8 > data_len - 2
    \/ SubSeq(fr_ipaddr_mask(Bytes(buf, p + 2, data_len - 2)
                             \o [k \in 1..(18 - data_len) |-> 0],
                             Byte(buf, p + 1)),
              1, data_len - 2)
       # Bytes(buf, p + 2, data_len - 2)

ipv6_prefix(buf, p, data_len) ==
    <<Byte(buf, p + 1)>>
    \o fr_ipaddr_mask(Bytes(buf, p + 2, data_len - 2) \o [k \in 1..(18 - data_len) |-> 0],
                      Byte(buf, p + 1))

(* "vp = fr_pair_afrom_da(...)" to the end of the function *)
RECURSIVE EmitValue(_, _, _, _, _, _)
EmitValue(cursor, parent, v, tag, attr_len, log) ==
    LET h == IF v.local THEN v.hi ELSE Max2(v.hi, v.p + v.data_len)
        box == fr_value_box_from_network(parent.type, v.pbuf, v.p, v.data_len)
        raw == UnknownOf(parent)
    IN  IF parent.type = "IPV6_PREFIX"
        THEN IF ~ipv6_prefix_raw(v.pbuf, v.p, v.data_len)
             THEN Res(attr_len,
                      Append(cursor, Pair(parent, tag, ipv6_prefix(v.pbuf, v.p, v.data_len))),
                      h, PairAppended(log, parent))
             ELSE IF raw = NoDA
                  THEN Res(-1, cursor, h, Jumped(Allocated(log, parent), parent))
             ELSE EmitValue(cursor, raw, v, TAG_NONE, attr_len,
                            Jumped(Allocated(log, parent), parent))
        ELSE IF parent.type \notin LeafTypes
             THEN Res(-1, cursor, v.hi, PairFreed(log, parent))
        ELSE IF box.rc >= 0
             THEN Res(attr_len, Append(cursor, Pair(parent, tag, box.val)), h,
                      PairAppended(log, parent))
        ELSE IF parent.is_unknown THEN Res(-1, cursor, h, PairFreed(log, parent))
        ELSE IF raw = NoDA THEN Res(-1, cursor, h, Jumped(Allocated(log, parent), parent))
        ELSE EmitValue(cursor, raw, v, TAG_NONE, attr_len,
                       Jumped(Allocated(log, parent), parent))

(* the label "raw" *)
RawValue(cursor, parent, v, attr_len, log) ==
    LET raw == UnknownOf(parent)
    IN  IF raw = NoDA THEN Res(-1, cursor, v.hi, Jumped(log, parent))
        ELSE EmitValue(cursor, raw, v, TAG_NONE, attr_len, Jumped(log, parent))

(* the label "invalid_extended", from the decoding of the unknown child *)
(* in place on, given its result r                                      *)
InvalidChild(r, v, attr_len, h, log) ==
    Res(IF r.rc < 0 THEN -1 ELSE attr_len, r.out,
        IF v.local THEN h ELSE Max2(h, r.hi), log \o r.log)

(* the label "invalid_extended" for a long-extended parent, given the   *)
(* result e of decode_extended on the unknown child                     *)
InvalidLong(e, child, v, min, attr_len, log) ==
    IF e.rc >= 0 THEN Res(e.rc, e.out, Max2(v.hi, e.hi), log \o e.log)
    ELSE InvalidChild(fr_radius_decode_pair_value(e.out, child, v.pbuf, v.p + min,
                                                  attr_len - min, attr_len - min),
                      v, attr_len, Max2(v.hi, e.hi), log \o e.log)

(* the label "invalid_extended" *)
InvalidExtended(cursor, parent, buf, data, attr_len, packet_len, v, min, log) ==
    LET child == fr_dict_unknown_afrom_fields(parent, 0, Byte(v.pbuf, v.p))
    IN  IF child = NoDA THEN RawValue(cursor, parent, v, attr_len, log)
        ELSE IF parent.extra # 0
             THEN InvalidLong(decode_extended(cursor, child, buf, data, attr_len,
                                              packet_len),
                              child, v, min, attr_len, log)
        ELSE InvalidChild(fr_radius_decode_pair_value(cursor, child, v.pbuf, v.p + min,
                                                      attr_len - min, attr_len - min),
                          v, attr_len, v.hi, log)

(* "case FR_TYPE_EXTENDED", given the result r of the decoding of the   *)
(* known child, which returns rc where it succeeded                     *)
ExtendedChild(r, rc, parent, buf, data, attr_len, packet_len, v, min) ==
    IF r.rc >= 0
    THEN Res(rc, r.out, IF v.local THEN v.hi ELSE Max2(v.hi, r.hi), r.log)
    ELSE InvalidExtended(r.out, parent, buf, data, attr_len, packet_len,
                         [v EXCEPT !.hi = IF v.local THEN v.hi ELSE Max2(v.hi, r.hi)],
                         min, r.log)

(* "case FR_TYPE_EXTENDED", a fragmented child: decode_extended's own   *)
(* return is the function's                                             *)
ExtendedLong(e, parent, buf, data, attr_len, packet_len, v, min) ==
    ExtendedChild(e, e.rc, parent, buf, data, attr_len, packet_len, v, min)

(* "case FR_TYPE_EXTENDED" *)
ExtendedValue(cursor, parent, buf, data, attr_len, packet_len, v) ==
    LET min == 1 + parent.extra
        child == fr_dict_attr_child_by_num(parent, Byte(v.pbuf, v.p))
    IN  IF v.data_len <= min THEN RawValue(cursor, parent, v, attr_len, <<>>)
        ELSE IF child = NoDA
             THEN InvalidExtended(cursor, parent, buf, data, attr_len, packet_len,
                                  v, min, <<>>)
        ELSE IF parent.extra = 0 \/ Byte(v.pbuf, v.p + 1) < 128
             THEN ExtendedChild(fr_radius_decode_pair_value(cursor, child, v.pbuf,
                                                            v.p + min, attr_len - min,
                                                            attr_len - min),
                                attr_len, parent, buf, data, attr_len, packet_len, v, min)
        ELSE ExtendedLong(decode_extended(cursor, child, buf, data, attr_len, packet_len),
                          parent, buf, data, attr_len, packet_len, v, min)

(* "case FR_TYPE_VSA" and "case FR_TYPE_TLV", given the result c of the *)
(* container's decoder                                                  *)
Contained(c, parent, v, attr_len) ==
    IF c.rc < 0
    THEN RawValue(c.out, parent,
                  [v EXCEPT !.hi = IF v.local THEN v.hi ELSE Max2(v.hi, c.hi)],
                  attr_len, c.log)
    ELSE Res(IF parent.type = "VSA" THEN c.rc ELSE attr_len, c.out,
             IF v.local THEN v.hi ELSE Max2(v.hi, c.hi), c.log)

(* from "min = fr_radius_attr_sizes[parent->type][0]" on *)
KindValue(cursor, parent, buf, data, attr_len, packet_len, v) ==
    LET sizes == fr_radius_attr_sizes(parent.type)
    IN  IF v.data_len < sizes[1] \/ v.data_len > sizes[2]
        THEN RawValue(cursor, parent, v, attr_len, <<>>)
        ELSE IF parent.type \in LeafTypes \cup {"IPV6_PREFIX"}
             THEN EmitValue(cursor, parent, v, v.tag, attr_len, <<>>)
        ELSE IF parent.type = "EXTENDED"
             THEN ExtendedValue(cursor, parent, buf, data, attr_len, packet_len, v)
        ELSE IF parent.type = "VSA"
             THEN Contained(decode_vsa(cursor, parent, v.pbuf, v.p, attr_len, packet_len),
                            parent, v, attr_len)
        ELSE IF parent.type = "TLV"
             THEN Contained(fr_radius_decode_tlv(cursor, parent, v.pbuf, v.p, attr_len),
                            parent, v, attr_len)
        ELSE RawValue(cursor, parent, v, attr_len, <<>>)

(* "Decrypt the attribute", given the result t of the decryption *)
Decrypted(cursor, parent, buf, data, attr_len, packet_len, v, t) ==
    LET v1 == [v EXCEPT !.pbuf = t.passwd, !.p = 0, !.local = TRUE,
                        !.data_len = t.pwlen, !.hi = Max2(v.hi, data + attr_len)]
    IN  IF t.rc < 0 THEN RawValue(cursor, parent, v1, attr_len, <<>>)
        ELSE KindValue(cursor, parent, buf, data, attr_len, packet_len, v1)

(* "Decrypt the attribute": packet_ctx is always given *)
DecryptValue(cursor, parent, buf, data, attr_len, packet_len, v) ==
    IF parent.subtype = "NONE"
    THEN KindValue(cursor, parent, buf, data, attr_len, packet_len, v)
    ELSE IF attr_len > MaxEncryptedLen THEN Res(-1, cursor, v.hi, <<>>)
    ELSE Decrypted(cursor, parent, buf, data, attr_len, packet_len, v,
                   fr_radius_decode_tunnel_password(
                       IF v.local THEN v.pbuf ELSE Bytes(buf, data, attr_len),
                       v.data_len))

(* the function from its sanity checks to its return *)
DispatchValue(cursor, parent, buf, data, attr_len, packet_len) ==
    IF parent = NoDA \/ attr_len > packet_len \/ attr_len > MaxAttrLen
    THEN Res(-1, cursor, 0, <<>>)
    ELSE IF attr_len = 0 THEN Res(0, cursor, 0, <<>>)
    ELSE LET tagged == parent.has_tag /\ attr_len > 1
                       /\ (Byte(buf, data) < 32 \/ parent.subtype = "TUNNEL_PASSWORD")
             plain == [pbuf |-> buf, p |-> data, local |-> FALSE, data_len |-> attr_len,
                       tag |-> TAG_NONE,
                       hi |-> IF parent.has_tag /\ attr_len > 1 THEN data + 1 ELSE 0]
             string == [pbuf |-> Bytes(buf, data + 1, attr_len - 1), p |-> 0,
                        local |-> TRUE, data_len |-> attr_len - 1,
                        tag |-> Int8(Byte(buf, data)), hi |-> data + attr_len]
             uint32 == [pbuf |-> <<0>> \o Bytes(buf, data + 1, attr_len - 1), p |-> 0,
                        local |-> TRUE, data_len |-> attr_len,
                        tag |-> Int8(Byte(buf, data)), hi |-> data + attr_len]
         IN  IF tagged /\ attr_len >= BufferSize THEN Res(-1, cursor, data + 1, <<>>)
             ELSE IF tagged /\ parent.type \notin {"STRING", "UINT32"}
                  THEN Res(-1, cursor, data + 1, <<>>)
             ELSE DecryptValue(cursor, parent, buf, data, attr_len, packet_len,
                               IF ~tagged THEN plain
                               ELSE IF parent.type = "STRING" THEN string ELSE uint32)

fr_radius_decode_pair_value(cursor, parent, buf, data, attr_len, packet_len) ==
    Dispatched(DispatchValue(cursor, parent, buf, data, attr_len, packet_len),
               parent, data, attr_len)

----------------------------------------------------------------------------
(* fr_radius_decode_pair *)

(* the entry point without the test "data[1] > data_len" *)
fr_radius_decode_pair_no_length_test(cursor, buf, data, data_len) ==
    IF data_len < 2 THEN Res(-1, cursor, 0, <<>>)
    ELSE IF Byte(buf, data + 1) < 2
    THEN Res(-1, cursor, data + 2, <<>>)
    ELSE LET known == fr_dict_attr_child_by_num(Root, Byte(buf, data))
             da == IF known # NoDA THEN known
                   ELSE fr_dict_unknown_afrom_fields(Root, 0, Byte(buf, data))
         IN  IF da = NoDA THEN Res(-1, cursor, data + 2, <<>>)
             ELSE IF data_len = 2
                  THEN IF ~Root.is_root \/ Byte(buf, data) # FR_CHARGEABLE_USER_IDENTITY
                       THEN Res(2, cursor, data + 2, <<>>)
                       ELSE Res(2, Append(cursor, Pair(da, TAG_NONE, <<>>)), data + 2, <<>>)
             ELSE IF da.concat
                  THEN Passed(decode_concat(cursor, da, buf, data, data_len), 0, data + 2)
             ELSE Passed(fr_radius_decode_pair_value(cursor, da, buf, data + 2,
                                                     Byte(buf, data + 1) - 2, data_len - 2),
                         2, data + 2)

fr_radius_decode_pair(cursor, buf, data, data_len) ==
    IF data_len < 2 THEN Res(-1, cursor, 0, <<>>)
    ELSE IF Byte(buf, data + 1) < 2 \/ Byte(buf, data + 1) > data_len
    THEN Res(-1, cursor, data + 2, <<>>)
    ELSE LET known == fr_dict_attr_child_by_num(Root, Byte(buf, data))
             da == IF known # NoDA THEN known
                   ELSE fr_dict_unknown_afrom_fields(Root, 0, Byte(buf, data))
         IN  IF da = NoDA THEN Res(-1, cursor, data + 2, <<>>)
             ELSE IF data_len = 2
                  THEN IF ~Root.is_root \/ Byte(buf, data) # FR_CHARGEABLE_USER_IDENTITY
                       THEN Res(2, cursor, data + 2, <<>>)
                       ELSE Res(2, Append(cursor, Pair(da, TAG_NONE, <<>>)), data + 2, <<>>)
             ELSE IF da.concat
                  THEN Passed(decode_concat(cursor, da, buf, data, data_len), 0, data + 2)
             ELSE Passed(fr_radius_decode_pair_value(cursor, da, buf, data + 2,
                                                     Byte(buf, data + 1) - 2, data_len - 2),
                         2, data + 2)

----------------------------------------------------------------------------
(* The packets the decoder is run on.  A packet is a run of attributes,    *)
(* each built from a small record of choices, possibly cut short; the data *)
(* bytes of the i-th attribute are 160 + 16 i, 161 + 16 i, ... so that     *)
(* every data byte of a packet is different.                               *)

Stamp(i, n) == [j \in 1..n |-> 160 + 16 * i + (j - 1)]

RECURSIVE Flatten(_)
Flatten(ss) == IF ss = <<>> THEN <<>> ELSE Head(ss) \o Flatten(Tail(ss))

SeqsUpTo(S, n) == UNION {[1..k -> S] : k \in 0..n}

(* s without its last k bytes, for every k that leaves a byte *)
Truncations(s) == {SubSeq(s, 1, Len(s) - k) : k \in {j \in 0..MaxTrunc : j < Len(s)}}

(* any bytes at all, from a small alphabet *)
RawBytes == {1, 2, 3, 79, 89}
RawPackets == SeqsUpTo(RawBytes, MaxSlice) \ {<<>>}

(* User-Name and EAP-Message attributes with 0 to 2 bytes of value *)
BasicKinds == [t : {1, 79}, n : 0..2]
BasicAttr(k, i) == <<k.t, 2 + k.n>> \o Stamp(i, k.n)
BasicPackets ==
    UNION {Truncations(Flatten([i \in 1..Len(ks) |-> BasicAttr(ks[i], i)]))
           : ks \in SeqsUpTo(BasicKinds, MaxAttrs) \ {<<>>}}

(* the Tunnel-Password value for a plaintext of at most 16 bytes *)
TunnelCipher(salt, plain) ==
    LET digest == fr_md5(secret \o vector \o salt)
    IN  salt \o [i \in 1..Len(plain) |-> Xor(plain[i], digest[i])]

TagBytes == {0, 1, 31, 32, 128}
TunnelPlains ==
    {<<>>} \cup {<<e>> : e \in {0, 1}}
    \cup {<<e, a, b>> : e \in {0, 1, 2, 3}, a \in {0, 7}, b \in {0, 7}}
TaggedValues ==
    {<<64, 2 + 1 + n, tb>> \o Stamp(1, n) : tb \in TagBytes, n \in {2, 3}}
    \cup {<<81, 2 + 1 + n, tb>> \o Stamp(1, n) : tb \in TagBytes, n \in {0, 1}}
    \cup {<<83, 2 + 1 + n, tb>> \o Stamp(1, n) : tb \in TagBytes, n \in {0, 1}}
    \cup {<<69, 3, tb>> : tb \in TagBytes}
    \cup {<<69, 4, tb, 5>> : tb \in TagBytes}
    \cup {<<69, 2 + 1 + 2 + Len(pl), tb>> \o TunnelCipher(<<128, 5>>, pl)
          : tb \in TagBytes, pl \in TunnelPlains}
TaggedPackets == {v \o tail : v \in TaggedValues, tail \in {<<>>, <<1, 3, 200>>}}

(* a long-extended anchor and the attributes after it *)
AnchorKinds == [ext : {1, 3}, flag : {0, 128}, n : 0..2]
FragKinds ==
    [what : {"frag"}, flag : {0, 128}, n : 0..1]
    \cup [what : {"type", "ext", "short"}, flag : {0}, n : {1}]
ExtAnchor(a) == <<245, 4 + a.n, a.ext, a.flag>> \o Stamp(1, a.n)
ExtFrag(a, k, i) ==
    CASE k.what = "frag"  -> <<245, 4 + k.n, a.ext, k.flag>> \o Stamp(i, k.n)
      [] k.what = "type"  -> <<1, 5, a.ext, 0>> \o Stamp(i, 1)
      [] k.what = "ext"   -> <<245, 5, a.ext + 1, 0>> \o Stamp(i, 1)
      [] k.what = "short" -> <<245, 3, a.ext>>
ExtendedPackets ==
    UNION {Truncations(ExtAnchor(a)
                       \o Flatten([i \in 1..Len(ks) |-> ExtFrag(a, ks[i], i + 1)]))
           : a \in AnchorKinds, ks \in SeqsUpTo(FragKinds, MaxFrags)}

(* sub-attributes in the RFC format, for a TLV or a Vendor-Specific *)
SubKinds ==
    [id : {1, 2}, n : 0..2, len : {"ok"}]
    \cup [id : {9}, n : {1}, len : {"ok"}]
    \cup [id : {1}, n : {1}, len : {"short", "long"}]
SubAttr(k, i) ==
    <<k.id, CASE k.len = "ok" -> 2 + k.n [] k.len = "short" -> 1 [] k.len = "long" -> 4 + k.n>>
    \o Stamp(i, k.n)
SubBodies == {Flatten([i \in 1..Len(ks) |-> SubAttr(ks[i], i)]) : ks \in SeqsUpTo(SubKinds, MaxSubs)}

Leads == {<<>>, <<1, 3, 200>>}
Tails == {<<>>, <<1, 3, 201>>}

TlvPackets ==
    {lead \o <<241, 3 + Len(b), 2>> \o b \o tail
     : lead \in Leads, b \in SubBodies, tail \in Tails}
    \cup {<<241, 3 + n, e>> \o Stamp(1, n) : e \in {1, 3}, n \in {3, 4}}

VendorIds == {<<0, 0, 0, 9>>, <<0, 0, 0, 77>>, <<1, 0, 0, 9>>}
VsaPackets ==
    {lead \o <<FR_VENDOR_SPECIFIC, 6 + Len(b)>> \o pen \o b \o tail
     : lead \in Leads, pen \in VendorIds, b \in SubBodies, tail \in Tails}

(* a WiMAX attribute and the Vendor-Specific attributes after it *)
WimaxId == <<0, 0, 96, 181>>
WimaxAnchorKinds == [attr : {4, 7}, flag : {0, 128}, n : 0..2]
WimaxFragKinds ==
    [what : {"frag"}, flag : {0, 128}, n : 0..1]
    \cup [what : {"type", "pen", "attr", "len", "outer"}, flag : {0}, n : {1}]
WimaxAnchor(a) ==
    <<FR_VENDOR_SPECIFIC, 9 + a.n>> \o WimaxId \o <<a.attr, 3 + a.n, a.flag>> \o Stamp(1, a.n)
WimaxFrag(a, k, i) ==
    CASE k.what = "frag"  -> <<FR_VENDOR_SPECIFIC, 9 + k.n>> \o WimaxId
                             \o <<a.attr, 3 + k.n, k.flag>> \o Stamp(i, k.n)
      [] k.what = "type"  -> <<1, 10>> \o WimaxId \o <<a.attr, 4, 0>> \o Stamp(i, 1)
      [] k.what = "pen"   -> <<FR_VENDOR_SPECIFIC, 10, 0, 0, 0, 9, a.attr, 4, 0>> \o Stamp(i, 1)
      [] k.what = "attr"  -> <<FR_VENDOR_SPECIFIC, 10>> \o WimaxId
                             \o <<a.attr + 1, 4, 0>> \o Stamp(i, 1)
      [] k.what = "len"   -> <<FR_VENDOR_SPECIFIC, 11>> \o WimaxId
                             \o <<a.attr, 4, 0>> \o Stamp(i, 2)
      [] k.what = "outer" -> <<FR_VENDOR_SPECIFIC, 8>> \o WimaxId \o <<a.attr, 2>>
WimaxPackets ==
    UNION {Truncations(WimaxAnchor(a)
                       \o Flatten([i \in 1..Len(ks) |-> WimaxFrag(a, ks[i], i + 1)]))
           : a \in WimaxAnchorKinds, ks \in SeqsUpTo(WimaxFragKinds, MaxFrags)}
    \cup {<<FR_VENDOR_SPECIFIC, 9 + Len(b)>> \o WimaxId \o <<1, 3 + Len(b), 0>> \o b
          : b \in SubBodies}

(* Framed-IPv6-Prefix: the reserved byte, the prefix length, the address *)
PrefixBits == {0, 4, 8, 9, 12, 16, 17, 128, 129}
PrefixAddrs ==
    SeqsUpTo({0, 240, 255}, 2)
    \cup {[k \in 1..n |-> 255] : n \in {15, 16, 17}}
PrefixPackets ==
    {<<97, 4 + Len(a), r, bits>> \o a \o tail
     : r \in {0, 1}, bits \in PrefixBits, a \in PrefixAddrs, tail \in Tails}
    \cup {<<97, 3, 0>>}

----------------------------------------------------------------------------
(* The caller: it decodes the packet front to back, one call of            *)
(* fr_radius_decode_pair per attribute, and stops at the first error.      *)

Start ==
    /\ pos = 0 /\ out = <<>> /\ rcode = 0 /\ hi = 0 /\ calls = <<>>
    /\ lastPos = 0 /\ lastOut = <<>> /\ pc = "start"

Init ==
    /\ Start
    /\ dv_type = 0 /\ dv_length = 0
    /\ \/ /\ packet \in RawPackets \cup BasicPackets \cup ExtendedPackets
          /\ junk \in {0, 255}
          /\ NDEBUG = TRUE /\ allocFail = {} /\ tunnel_password_zeros = FALSE
       \/ /\ packet \in TaggedPackets
          /\ tunnel_password_zeros \in BOOLEAN
          /\ allocFail \in {{}, {64, 69}}
          /\ junk = 0 /\ NDEBUG = TRUE
       \/ /\ packet \in TlvPackets \cup VsaPackets
          /\ \/ NDEBUG \in BOOLEAN /\ allocFail = {}
             \/ NDEBUG = TRUE /\ allocFail \in {{9}, {9, 26, 241}}
          /\ junk = 0 /\ tunnel_password_zeros = FALSE
       \/ /\ packet \in WimaxPackets
          /\ junk = 0 /\ NDEBUG = TRUE /\ allocFail = {} /\ tunnel_password_zeros = FALSE
       \/ /\ packet \in PrefixPackets
          /\ junk = 0 /\ NDEBUG = TRUE /\ allocFail = {} /\ tunnel_password_zeros = FALSE

(* the caller's bookkeeping after one call of the entry point returned r *)
Decoded(r) ==
    /\ rcode' = r.rc
    /\ out' = r.out
    /\ hi' = r.hi
    /\ calls' = r.log
    /\ lastPos' = pos
    /\ lastOut' = out
    /\ pos' = IF r.rc < 0 THEN pos ELSE pos + r.rc
    /\ pc' = IF r.rc < 0 THEN "error"
             ELSE IF pos + r.rc >= Len(packet) THEN "done" ELSE "walk"

DecodeNext ==
    /\ pc \in {"start", "walk"}
    /\ pos < Len(packet)
    /\ Decoded(fr_radius_decode_pair(out, packet, pos, Len(packet) - pos))
    /\ UNCHANGED <<packet, junk, NDEBUG, allocFail, tunnel_password_zeros,
                   dv_type, dv_length>>


Next == DecodeNext

Spec == Init /\ [][Next]_vars

----------------------------------------------------------------------------
(* What the last call was given and what it did.                           *)

Called == pc # "start"

(* the attribute the last call started at *)
LastType == Byte(packet, lastPos)
LastLen == Byte(packet, lastPos + 1)
LastDataLen == Len(packet) - lastPos

(* the pairs the last call appended *)
Appended == SubSeq(out, Len(lastOut) + 1, Len(out))

(* C1: every byte the decoder reads lies inside the packet it was given:  *)
(* the highest index read by a call is below the packet's length.          *)
C1_NoReadPastEnd == hi <= Len(packet)

(* C2: when a recognized leaf attribute is demoted to a raw pair, the call *)
(* succeeds with exactly one OCTETS pair under the unknown descriptor of   *)
(* that attribute, and the pair's value is the attribute's value bytes as  *)
(* they were on the wire, tagged and encrypted attributes included.        *)
Demoted ==
    /\ Called /\ rcode >= 0
    /\ LastType \in {1, 64, 69, 81}
    /\ Len(Appended) = 1
    /\ Appended[1].unknown

C2_RawKeepsWireBytes ==
    Demoted =>
        /\ Appended[1].da = <<LastType>>
        /\ Appended[1].type = "OCTETS"
        /\ Appended[1].val = Bytes(packet, lastPos + 2, LastLen - 2)

(* C3: every pair of the output carries tag 0 or a tag from 1 to 31.       *)
C3_TagsInRange == \A i \in 1..Len(out) : out[i].tag \in 0..31

(* C5: a call on an attribute whose length byte is 2 returns 2, for every  *)
(* descriptor and with or without attributes after it.                     *)
C5_EmptyReturnsTwo == (Called /\ LastDataLen >= 2 /\ LastLen = 2) => rcode = 2

(* C4: a successful call returns r with 2 <= data[1] <= r <= data_len, and *)
(* a caller that advances by r ends exactly at the packet's end when every *)
(* call has succeeded.                                                     *)
C4_ReturnWithinPacket ==
    /\ (Called /\ rcode >= 0) =>
           /\ 2 <= LastLen
           /\ LastLen <= rcode
           /\ rcode <= LastDataLen
    /\ pos <= Len(packet)
    /\ pc = "done" => pos = Len(packet)

(* the calls of the two container decoders, in the log of the last call *)
ContainerCalls ==
    {i \in 1..Len(calls) : calls[i].fn \in {"fr_radius_decode_tlv", "decode_vsa"}}

(* C6: a container decoder that fails leaves its caller's sequence as it   *)
(* was at the call, and one that succeeds appends all the pairs it staged, *)
(* in order, after the pairs already there.                                *)
C6_StagingFrame ==
    \A i \in ContainerCalls :
        /\ calls[i].rc < 0 => calls[i].post = calls[i].pre
        /\ calls[i].rc >= 0 => calls[i].post = calls[i].pre \o calls[i].staged

(* the well-formed attributes of the type at p that follow one another     *)
(* from p on: their start offsets                                          *)
RECURSIVE SameTypeRun(_, _)
SameTypeRun(p, type) ==
    IF /\ p + 1 < Len(packet)
       /\ packet[p + 1] = type
       /\ packet[p + 2] >= 3
       /\ p + packet[p + 2] <= Len(packet)
    THEN <<p>> \o SameTypeRun(p + packet[p + 2], type)
    ELSE <<>>

RECURSIVE ValuesOf(_, _)
ValuesOf(starts, hdr) ==
    IF starts = <<>> THEN <<>>
    ELSE SubSeq(packet, Head(starts) + hdr + 1, Head(starts) + packet[Head(starts) + 2])
         \o ValuesOf(Tail(starts), hdr)

RECURSIVE LengthsOf(_)
LengthsOf(starts) ==
    IF starts = <<>> THEN 0 ELSE packet[Head(starts) + 2] + LengthsOf(Tail(starts))

ConcatRun == SameTypeRun(lastPos, 79)
ConcatRunEnd == lastPos + LengthsOf(ConcatRun)

(* the last call started at a run of EAP-Message attributes that ends at *)
(* the packet's end or before an attribute of another type                *)
ConcatCase ==
    /\ Called
    /\ Len(ConcatRun) >= 1
    /\ ConcatRunEnd = Len(packet) \/ packet[ConcatRunEnd + 1] # 79

(* C8: on a run of k well-formed attributes of a concat type, ended by the *)
(* packet's end or by another type, the call appends one OCTETS pair whose *)
(* value is the k values in order, and returns the sum of the k lengths.   *)
C8_ConcatRun ==
    ConcatCase =>
        /\ rcode = LengthsOf(ConcatRun)
        /\ out = Append(lastOut, [da |-> <<79>>, type |-> "OCTETS", unknown |-> FALSE,
                                  tag |-> 0, val |-> ValuesOf(ConcatRun, 2)])

(* the last call started at a long-extended attribute whose flag byte has *)
(* the "more" bit                                                          *)
LongExtAnchor ==
    /\ Called
    /\ LastDataLen >= 4
    /\ LastType = 245
    /\ LastLen >= 4 /\ LastLen <= LastDataLen
    /\ packet[lastPos + 4] >= 128

(* the fragments accepted from offset p on: the same outer type, the same  *)
(* ext-type, an outer length of 4 or more that fits in the packet; none is *)
(* accepted after one whose "more" bit is clear                            *)
RECURSIVE ExtFrags(_, _, _)
ExtFrags(p, type, ext) ==
    IF /\ p + 1 < Len(packet)
       /\ packet[p + 1] = type
       /\ packet[p + 2] >= 4
       /\ p + packet[p + 2] <= Len(packet)
       /\ packet[p + 3] = ext
    THEN <<p>> \o (IF packet[p + 4] >= 128
                   THEN ExtFrags(p + packet[p + 2], type, ext)
                   ELSE <<>>)
    ELSE <<>>

ExtRun == <<lastPos>> \o ExtFrags(lastPos + LastLen, LastType, packet[lastPos + 3])

ExtReassembled ==
    /\ rcode = LengthsOf(ExtRun)
    /\ Len(out) = Len(lastOut) + 1
    /\ SubSeq(out, 1, Len(lastOut)) = lastOut
    /\ out[Len(out)].da = <<LastType, packet[lastPos + 3]>>
    /\ out[Len(out)].type = "OCTETS"
    /\ out[Len(out)].val = ValuesOf(ExtRun, 4)

RECURSIVE WimaxChain(_, _)
WimaxChain(d, a) ==
    /\ a + 3 <= Len(packet)
    /\ packet[a + 2] > 3
    /\ a + packet[a + 2] <= Len(packet)
    /\ \/ packet[a + 3] < 128
       \/ LET n == a + packet[a + 2]
          IN  /\ n + 9 <= Len(packet)
              /\ packet[n + 1] = FR_VENDOR_SPECIFIC
              /\ n + packet[n + 2] <= Len(packet)
              /\ SubSeq(packet, n + 3, n + 6) = SubSeq(packet, d + 1, d + 4)
              /\ packet[n + 7] = packet[d + 5]
              /\ packet[n + 2] = packet[n + 8] + 6
              /\ WimaxChain(d, n + 6)

WimaxCalls == {i \in 1..Len(calls) : calls[i].fn = "decode_wimax"}

(* C9: a WiMAX reassembly succeeds only if every continuation is a         *)
(* Vendor-Specific attribute with the same vendor id and the same WiMAX    *)
(* attribute, whose length is its WiMAX length plus 6, with data, inside   *)
(* the packet, and the last fragment has the "more" bit clear; a rejected  *)
(* reassembly appends no pair.                                             *)
C9_WimaxRejects ==
    \A i \in WimaxCalls :
        /\ calls[i].rc >= 0 => WimaxChain(calls[i].at, calls[i].at + 4)
        /\ calls[i].rc < 0 => calls[i].post = calls[i].pre

----------------------------------------------------------------------------
(* fr_radius_decode_tlv_ok on its own: a slice, a type width and a length  *)
(* width.  The slice is a run of sub-attributes of that format, each well  *)
(* formed or wrong in one way, possibly cut short, or any short run of     *)
(* small bytes.                                                            *)

TlvSubKinds ==
    [what : {"ok"}, n : 0..1]
    \cup [what : {"zero", "high", "long", "tiny", "over"}, n : {1}]

TlvSub(T, W, k, i) ==
    LET id  == CASE k.what = "zero" -> [j \in 1..T |-> 0]
                 [] k.what = "high" -> [j \in 1..T |-> IF j = 1 THEN 1 ELSE 0]
                 [] OTHER           -> [j \in 1..T |-> IF j = T THEN 5 ELSE 0]
        l   == CASE k.what = "tiny" -> T + W - 1
                 [] k.what = "over" -> T + W + k.n + 1
                 [] OTHER           -> T + W + k.n
        len == CASE W = 0 -> <<>>
                 [] W = 1 -> <<l>>
                 [] W = 2 -> <<IF k.what = "long" THEN 1 ELSE 0, l>>
    IN  id \o len \o Stamp(i, k.n)

TlvSlices(T, W) ==
    UNION {Truncations(Flatten([i \in 1..Len(ks) |-> TlvSub(T, W, ks[i], i)]))
           : ks \in SeqsUpTo(TlvSubKinds, MaxSubs) \ {<<>>}}
    \cup SeqsUpTo(0..3, MaxSlice)

InitTlv ==
    /\ Start
    /\ dv_type \in {1, 2, 4}
    /\ dv_length \in {0, 1, 2}
    /\ packet \in TlvSlices(dv_type, dv_length)
    /\ junk = 0 /\ NDEBUG = TRUE /\ allocFail = {} /\ tunnel_password_zeros = FALSE

CheckTlv ==
    /\ pc = "start"
    /\ LET r == fr_radius_decode_tlv_ok(packet, 0, Len(packet), dv_type, dv_length)
       IN  /\ rcode' = r.rc
           /\ hi' = r.hi
    /\ pc' = "done"
    /\ UNCHANGED <<packet, pos, out, calls, lastPos, lastOut, junk, NDEBUG, allocFail,
                   tunnel_password_zeros, dv_type, dv_length>>

NextTlv == CheckTlv

SpecTlv == InitTlv /\ [][NextTlv]_vars

(* the id of the sub-attribute at offset p is one the format allows *)
LegalId(p) ==
    CASE dv_type = 4 -> packet[p + 1] = 0 /\ \E j \in 2..4 : packet[p + j] # 0
      [] dv_type = 2 -> packet[p + 1] # 0 \/ packet[p + 2] # 0
      [] dv_type = 1 -> TRUE

(* the slice from offset p on is exactly a run of sub-attributes *)
RECURSIVE ExactSubs(_)
ExactSubs(p) ==
    \/ p = Len(packet)
    \/ /\ p + dv_type + dv_length <= Len(packet)
       /\ LegalId(p)
       /\ dv_length = 2 => packet[p + dv_type + 1] = 0
       /\ LET l == packet[p + dv_type + dv_length]
          IN  /\ l >= dv_type + dv_length
              /\ l <= Len(packet) - p
              /\ ExactSubs(p + l)

(* C10: the validator accepts a slice exactly when it is empty or an exact *)
(* run of sub-attributes with legal ids, a zero high length byte and       *)
(* lengths between the header size and what remains; with no length field  *)
(* it accepts as soon as the first id fits and is legal.                   *)
C10_TlvOk ==
    pc = "done" =>
        (rcode = 0 <=>
            IF dv_length = 0
            THEN packet = <<>> \/ (dv_type <= Len(packet) /\ LegalId(0))
            ELSE ExactSubs(0))

----------------------------------------------------------------------------
(* States in which the cases above have happened. *)

(* a packet decoded to its end in several calls, the last one a reassembly *)
C4_Witness == pc = "done" /\ lastPos > 0 /\ rcode > LastLen

(* a container failed after staging a pair, with pairs before it *)
C6_Witness ==
    \E i \in ContainerCalls :
        calls[i].rc < 0 /\ calls[i].staged # <<>> /\ calls[i].pre # <<>>

C8_Witness == ConcatCase /\ Len(ConcatRun) >= 2 /\ ConcatRunEnd < Len(packet)

(* a reassembly rejected at a continuation that is all there *)
C9_Witness ==
    \E i \in WimaxCalls :
        /\ calls[i].rc < 0
        /\ Len(packet) >= calls[i].at + 4 + packet[calls[i].at + 6] + 9

(* two sub-attributes with 4-byte ids and 2-byte lengths, accepted *)
C10_Witness ==
    pc = "done" /\ rcode = 0 /\ dv_type = 4 /\ dv_length = 2 /\ Len(packet) >= 12

----------------------------------------------------------------------------
(* fr_radius_decode_tunnel_password on its own.  The buffer handed to the  *)
(* function is a salt and the RFC 2868 encryption of a plaintext (the      *)
(* embedded length byte, the password, the padding), or a buffer too short *)
(* to hold one.  In this specification packet is the buffer passwd as      *)
(* handed in, lastOut the plaintext it was made from, and after the call   *)
(* rcode is the return value, out the buffer and pos the value of *pwlen.  *)

MaxPlain == 3

RECURSIVE EncryptBlocks(_, _)
EncryptBlocks(plain, digest) ==
    IF plain = <<>> THEN <<>>
    ELSE LET n == IF Len(plain) < AUTH_PASS_LEN THEN Len(plain) ELSE AUTH_PASS_LEN
             c == [i \in 1..n |-> Xor(plain[i], digest[i])]
         IN  c \o EncryptBlocks(SubSeq(plain, n + 1, Len(plain)), fr_md5(secret \o c))

TunnelEncrypt(salt, plain) ==
    salt \o EncryptBlocks(plain, fr_md5(secret \o vector \o salt))

TunnelSalts == {<<128, 5>>, <<200, 9>>}

(* the embedded length, the password and the padding: short ones over two *)
(* byte values, and ones that reach into a second block                   *)
TunnelTexts ==
    {<<e>> \o body : e \in 0..(MaxPlain + 2), body \in SeqsUpTo({0, 7}, MaxPlain) \ {<<>>}}
    \cup {<<e>> \o [j \in 1..n |-> IF j <= k THEN 64 + j ELSE 0]
          : e \in {9, 10, 15, 16, 17, 18}, n \in {15, 16, 17}, k \in {10, 17}}

InitTunnel ==
    /\ pos = 0 /\ out = <<>> /\ rcode = 0 /\ hi = 0 /\ calls = <<>> /\ lastPos = 0
    /\ pc = "start" /\ dv_type = 0 /\ dv_length = 0
    /\ junk = 0 /\ NDEBUG = TRUE /\ allocFail = {}
    /\ tunnel_password_zeros \in BOOLEAN
    /\ \/ /\ lastOut \in TunnelTexts
          /\ \E salt \in TunnelSalts : packet = TunnelEncrypt(salt, lastOut)
       \/ /\ lastOut = <<>>
          /\ packet \in SeqsUpTo({0, 5, 128}, 3)

(* the caller's view after the call returned t *)
Decrypting(t) ==
    /\ rcode' = t.rc
    /\ out' = t.passwd
    /\ pos' = t.pwlen

DecryptTunnel ==
    /\ pc = "start"
    /\ Decrypting(fr_radius_decode_tunnel_password(packet, Len(packet)))
    /\ pc' = "done"
    /\ UNCHANGED <<packet, hi, calls, lastPos, lastOut, junk, NDEBUG, allocFail,
                   tunnel_password_zeros, dv_type, dv_length>>

NextTunnel == DecryptTunnel

SpecTunnel == InitTunnel /\ [][NextTunnel]_vars

(* pwlen as handed in, and the embedded length E of the plaintext *)
TunnelLen == Len(packet)
TunnelE == lastOut[1]

(* C11: the function fails for pwlen < 2, returns 0 with an empty password *)
(* and pwlen 0 for pwlen 2 or 3, fails when E > pwlen - 2, and on every    *)
(* success returns E, sets pwlen to E and leaves in passwd the E plaintext *)
(* bytes that follow the length byte, then a NUL.                          *)
C11_TunnelPassword ==
    pc = "done" =>
        /\ TunnelLen < 2 => rcode = -1
        /\ TunnelLen \in {2, 3} => (rcode = 0 /\ pos = 0 /\ out[1] = 0)
        /\ (TunnelLen >= 4 /\ TunnelE > TunnelLen - 2) => rcode = -1
        /\ (TunnelLen >= 4 /\ rcode >= 0) =>
               /\ rcode = TunnelE
               /\ pos = TunnelE
               /\ \A i \in 1..TunnelE : i + 1 <= Len(lastOut) /\ out[i] = lastOut[i + 1]
               /\ out[TunnelE + 1] = 0

(* the byte at position i of the buffer when the trailing bytes are       *)
(* checked: the decrypted bytes moved down over the salt and the length,  *)
(* and behind them what the buffer held before                            *)
TunnelByte(i) == IF i + 2 <= Len(lastOut) THEN lastOut[i + 2] ELSE packet[i + 1]

(* the input is one the length test lets through *)
TunnelChecked == pc = "done" /\ TunnelLen >= 4 /\ TunnelE <= TunnelLen - 2

(* C12: with tunnel_password_zeros set the function fails exactly when a   *)
(* byte at positions E through pwlen - 4, the decrypted bytes behind the   *)
(* password, is non-zero; with the flag clear the input is accepted with E.*)
C12_TrailingZeros ==
    TunnelChecked =>
        IF tunnel_password_zeros
           /\ \E i \in TunnelE..(TunnelLen - 4) : TunnelByte(i) # 0
        THEN rcode = -1
        ELSE rcode = TunnelE

(* C12 as stated: with the flag set every non-zero byte at positions E    *)
(* through pwlen - 3 makes the function fail; with the flag clear the     *)
(* input is accepted with E.                                              *)
C12_ThroughLastByte ==
    TunnelChecked =>
        /\ (tunnel_password_zeros /\ \E i \in TunnelE..(TunnelLen - 3) : TunnelByte(i) # 0)
               => rcode = -1
        /\ ~tunnel_password_zeros => rcode = TunnelE

C12_Witness ==
    /\ TunnelChecked /\ tunnel_password_zeros /\ rcode = -1
    /\ TunnelE <= TunnelLen - 4 /\ TunnelByte(TunnelE) # 0

----------------------------------------------------------------------------
(* The order of the pairs.  A byte of 160 or more that occurs once in the  *)
(* packet marks its place on the wire; the marks found in the values of    *)
(* the output, read front to back, tell where each value came from.        *)

Marked(b) == b >= 160 /\ Cardinality({i \in 1..Len(packet) : packet[i] = b}) = 1
WirePos(b) == CHOOSE i \in 1..Len(packet) : packet[i] = b
Marks == SelectSeq(Flatten([i \in 1..Len(out) |-> out[i].val]), Marked)
PositionsOf(m) == [i \in 1..Len(m) |-> WirePos(m[i])]
Ascending(s) == \A i \in 1..(Len(s) - 1) : s[i] < s[i + 1]

(* C13: every call leaves the pairs already in the output where they were  *)
(* and appends behind them, and the values of the output follow the wire:  *)
(* the marked bytes appear in the order of the packet, each at most once,  *)
(* so a reassembled attribute is emitted once and its continuations are    *)
(* not decoded again.                                                      *)
C13_WireOrder ==
    /\ Len(lastOut) <= Len(out)
    /\ SubSeq(out, 1, Len(lastOut)) = lastOut
    /\ Ascending(PositionsOf(Marks))

C13_Witness ==
    /\ pc = "done" /\ Len(out) >= 4 /\ Len(Marks) >= 4
    /\ \E i \in 1..Len(out) : Len(out[i].da) >= 3

----------------------------------------------------------------------------
(* The tag step, seen from the caller: the last call was made at a has_tag *)
(* attribute without encryption (Tunnel-Type 64, a UINT32, or              *)
(* Tunnel-Client-Endpoint 81, a STRING), and it emitted the pair of that   *)
(* descriptor.                                                             *)

LastValue == SubSeq(packet, lastPos + 3, lastPos + LastLen)

TagCase ==
    /\ Called /\ rcode >= 0
    /\ LastType \in {64, 81}
    /\ LastLen >= 3
    /\ Len(Appended) = 1
    /\ ~Appended[1].unknown

(* C14: a has_tag attribute without Tunnel-Password encryption has its     *)
(* first value byte taken as the tag exactly when that byte is in 1..31:   *)
(* a STRING loses the byte, a UINT32 has it replaced by 0; any other first *)
(* byte, 0 included, leaves the value whole and the tag 0.                 *)
C14_TagStep ==
    TagCase =>
        IF LastValue[1] \in 1..31
        THEN /\ Appended[1].tag = LastValue[1]
             /\ Appended[1].val = IF LastType = 81 THEN Tail(LastValue)
                                  ELSE <<0>> \o Tail(LastValue)
        ELSE /\ Appended[1].tag = 0
             /\ Appended[1].val = LastValue

----------------------------------------------------------------------------
(* Framed-IPv6-Prefix, seen from the caller: the last call was made at an  *)
(* attribute 97 whose value has the 2 to 18 bytes of the kind.             *)

PrefixCase ==
    /\ Called /\ rcode >= 0
    /\ LastType = 97
    /\ LastLen \in 4..20
    /\ Len(Appended) = 1

PrefixLen == LastValue[2]
PrefixAddr == SubSeq(LastValue, 3, Len(LastValue))

(* the bit at place n (0 is the first bit on the wire) of the address *)
PrefixBit(n) == (PrefixAddr[(n \div 8) + 1] \div (2 ^ (7 - (n % 8)))) % 2

(* C15: the value is decoded as a prefix exactly when its first byte is 0, *)
(* the prefix length is at most 128, the (prefix length + 7) / 8 bytes of  *)
(* the prefix are present, and no bit of the address behind the prefix is  *)
(* set; otherwise the pair is a raw one.                                   *)
C15_Ipv6Prefix ==
    PrefixCase =>
        (~Appended[1].unknown
         <=> /\ LastValue[1] = 0
             /\ PrefixLen <= 128
             /\ (PrefixLen + 7) \div 8 <= Len(PrefixAddr)
             /\ \A n \in 0..(8 * Len(PrefixAddr) - 1) : n >= PrefixLen => PrefixBit(n) = 0)

----------------------------------------------------------------------------
(* The concat walk stopped by a malformed attribute of the same type: the  *)
(* last call started at a run of well-formed EAP-Message attributes, and   *)
(* behind the run comes a byte 79 that does not start a well-formed one    *)
(* (its length is below 3, or it does not fit in the packet).              *)

ConcatBrokenEnd ==
    /\ Called
    /\ Len(ConcatRun) >= 1
    /\ ConcatRunEnd < Len(packet)
    /\ packet[ConcatRunEnd + 1] = 79

(* C16: such an attribute ends the run like one of another type does: the  *)
(* call appends one OCTETS pair with the values of the run and returns the *)
(* sum of the lengths of the run.                                          *)
C16_ConcatBrokenEnd ==
    ConcatBrokenEnd =>
        /\ rcode = LengthsOf(ConcatRun)
        /\ Len(Appended) = 1
        /\ Appended[1].val = ValuesOf(ConcatRun, 2)

----------------------------------------------------------------------------
(* A WiMAX reassembly that succeeded, seen from the caller.  The fragments *)
(* are read off the packet: each is a Vendor-Specific attribute, its       *)
(* continuation flag is the byte behind the WiMAX length, its data the     *)
(* bytes behind the 9 bytes of headers.                                    *)

RECURSIVE WimaxStarts(_)
WimaxStarts(a) ==
    <<a>> \o (IF packet[a + 9] >= 128 THEN WimaxStarts(a + packet[a + 2]) ELSE <<>>)

WimaxCase ==
    /\ Called /\ rcode >= 0
    /\ LastType = FR_VENDOR_SPECIFIC
    /\ \E i \in WimaxCalls : calls[i].rc >= 0 /\ calls[i].at = lastPos + 2

----------------------------------------------------------------------------
(* An empty top-level attribute: the last call was made at an attribute    *)
(* whose length byte is 2 and whose header lies inside the packet.         *)

EmptyCase == Called /\ LastDataLen >= 2 /\ LastLen = 2

(* C18: an empty attribute gives no pair, except Chargeable-User-Identity, *)
(* which gives one pair with an empty value, whether or not other          *)
(* attributes follow it in the buffer.                                     *)
C18_EmptyAttribute ==
    EmptyCase =>
        IF LastType = FR_CHARGEABLE_USER_IDENTITY
        THEN /\ Len(Appended) = 1
             /\ Appended[1].da = <<FR_CHARGEABLE_USER_IDENTITY>>
             /\ Appended[1].val = <<>>
        ELSE Appended = <<>>

----------------------------------------------------------------------------
(* C19: a call of fr_radius_decode_pair that returns an error leaves the   *)
(* caller's output sequence exactly as it was before the call.             *)
C19_ErrorFrame == (Called /\ rcode < 0) => out = lastOut

C19_Witness ==
    /\ pc = "error" /\ lastOut # <<>> /\ out = lastOut
    /\ \E i \in ContainerCalls : calls[i].rc < 0 /\ calls[i].staged # <<>>

----------------------------------------------------------------------------
(* C20: the decoder terminates.  Every loop of the last call (the TLV      *)
(* validator, the TLV decoder, the concat, long-extended and WiMAX walks,  *)
(* the VSA sub-attribute loop) moved by at least one byte in each of its   *)
(* iterations and never by more bytes than were left to it; every call of  *)
(* fr_radius_decode_pair_value made inside another one is on a deeper      *)
(* descriptor or on a shorter slice; and one call of it jumps to "raw" at  *)
(* most once.                                                              *)

Loops == {"tlv_ok_loop", "tlv_loop", "concat_walk", "extended_walk", "wimax_walk",
          "vsa_loop"}
LoopEntries == {i \in 1..Len(calls) : calls[i].fn \in Loops}
Dispatches == {i \in 1..Len(calls) : calls[i].fn = "fr_radius_decode_pair_value"}
RawJumps == {i \in 1..Len(calls) : calls[i].fn = "raw"}

(* the entries made inside the call of entry i, and those of them made by *)
(* that call itself and not by a call nested in it                        *)
Within(i) == (i - calls[i].staged[1])..(i - 1)
Direct(i) == {j \in Within(i) : \A k \in Dispatches \cap Within(i) : j \notin Within(k)}

C20_Terminates ==
    /\ \A i \in LoopEntries :
        /\ \A k \in 1..Len(calls[i].pre) : calls[i].pre[k] >= 1
        /\ SumBytes(calls[i].pre) <= calls[i].post
    /\ \A i \in Dispatches :
        /\ \A j \in Direct(i) \cap Dispatches :
               calls[j].pre > calls[i].pre \/ calls[j].post < calls[i].post
        /\ Cardinality(Direct(i) \cap RawJumps) <= 1

(* a call with a loop of two iterations, a nested call and a jump to "raw" *)
(* inside a nested call                                                    *)
C20_Witness ==
    /\ pc \in {"done", "walk", "error"}
    /\ \E i \in LoopEntries : Len(calls[i].pre) >= 2
    /\ \E i \in LoopEntries : calls[i].fn = "vsa_loop"
    /\ \E i, j \in Dispatches : j \in Direct(i) /\ Direct(j) \cap RawJumps # {}

----------------------------------------------------------------------------
(* C21: every pair a call of fr_radius_decode_pair_value allocated is, by  *)
(* the time the call returned, appended to the output sequence or freed,   *)
(* also when the value failed after the allocation and the attribute was   *)
(* demoted to raw; and every reassembly scratch buffer that was allocated  *)
(* is freed, whether the decoding of its contents succeeded or failed.     *)

(* the entries of the function fn among those of the set S *)
EntriesOf(S, fn) == {j \in S : calls[j].fn = fn}

C21_PairsAccounted ==
    /\ \A i \in Dispatches :
           Cardinality(EntriesOf(Direct(i), "fr_pair_afrom_da"))
           = Cardinality(EntriesOf(Direct(i), "fr_cursor_append"))
             + Cardinality(EntriesOf(Direct(i), "fr_pair_free"))
    /\ Cardinality(EntriesOf(1..Len(calls), "talloc_array"))
       = Cardinality(EntriesOf(1..Len(calls), "talloc_free"))

====
